---- MODULE Spec2Model ----
(***************************************************************************)
(* A model of mini-snark: the finite field and polynomial library          *)
(* (field.py), the symmetric pairing-group adaptor (bls12.py) and the KZG  *)
(* polynomial commitment scheme (kzg.py, kzg-simple.py).                   *)
(*                                                                         *)
(* A FieldElement is modelled by its val, an integer in 0..Order-1.  A     *)
(* Polynomial is modelled by its coeff list, a sequence of vals with the   *)
(* free term first.  A failed assertion is modelled by a result record     *)
(* whose ok field is FALSE.                                                *)
(***************************************************************************)
EXTENDS Integers, Sequences, FiniteSets, TLC

\* Field.order: the (prime) modulus of the field, which kzg.py takes from the
\* order of the pairing groups.  A small odd prime stands for it here, so the
\* trapdoor hits a root of a polynomial often instead of almost never.
Order == 5

\* The largest number of polynomial coefficients (`size` / `n` of setup).
MaxN == 3

FF == 0 .. (Order - 1)

Max(a, b) == IF a >= b THEN a ELSE b

(***************************************************************************)
(* class FieldElement                                                      *)
(***************************************************************************)

\* FieldElement.__init__: the value is stored reduced modulo the order.
FieldElement(val) == val % Order

zero == FieldElement(0)

one == FieldElement(1)

FAdd(a, b) == FieldElement((a + b) % Order)

FSub(a, b) == FieldElement((a - b) % Order)

FNeg(a) == FSub(zero, a)

FMul(a, b) == FieldElement((a * b) % Order)

\* The while loop of FieldElement.inverse (extended Euclid); returns <<t, r>>.
RECURSIVE inverse_loop(_, _, _, _)
inverse_loop(t, new_t, r, new_r) ==
    IF new_r = 0
    THEN <<t, r>>
    ELSE LET quotient == r \div new_r
         IN  inverse_loop(new_t, t - (quotient * new_t), new_r, r - quotient * new_r)

\* A mutant of inverse: the Bezout coefficient is returned without its sign.
inverse_unsigned(a) ==
    LET tr == inverse_loop(0, 1, Order, a)
        abs == IF tr[1] < 0 THEN 0 - tr[1] ELSE tr[1]
    IN  IF tr[2] = 1
        THEN [ok |-> TRUE, val |-> FieldElement(abs)]
        ELSE [ok |-> FALSE, val |-> 0]

\* FieldElement.inverse: `assert r == 1`, then FieldElement(field, t).
inverse(a) ==
    LET tr == inverse_loop(0, 1, Order, a)
    IN  IF tr[2] = 1
        THEN [ok |-> TRUE, val |-> FieldElement(tr[1])]
        ELSE [ok |-> FALSE, val |-> 0]

\* FieldElement.__truediv__: self * other.inverse().
FDiv(a, b) ==
    LET inv == inverse(b)
    IN  IF inv.ok THEN [ok |-> TRUE, val |-> FMul(a, inv.val)]
                  ELSE [ok |-> FALSE, val |-> 0]

\* The while loop of FieldElement.__pow__ (square and multiply).
RECURSIVE pow_loop(_, _, _)
pow_loop(res, cur_pow, n) ==
    IF n > 0
    THEN pow_loop(IF n % 2 # 0 THEN FMul(res, cur_pow) ELSE res,
                  FMul(cur_pow, cur_pow), n \div 2)
    ELSE res

\* FieldElement.__pow__ for n >= 0.
FPow(a, n) == pow_loop(FieldElement(1), a, n)

(***************************************************************************)
(* class Polynomial                                                        *)
(***************************************************************************)

\* The index loop of trim_trailing_zeros (1-based: the code's i is i - 1).
RECURSIVE trim_index(_, _)
trim_index(l, i) == IF i >= 1 /\ l[i] = 0 THEN trim_index(l, i - 1) ELSE i

\* trim_trailing_zeros: an empty list is returned as it is, any other list is
\* sliced to l[:i+1].
trim_trailing_zeros(l) ==
    IF Len(l) = 0 THEN <<>> ELSE SubSeq(l, 1, trim_index(l, Len(l)))

\* A mutant of Polynomial: at most one trailing zero is removed.
Polynomial_trim_once(coefficients) ==
    IF Len(coefficients) = 0 THEN <<>>
    ELSE IF coefficients[Len(coefficients)] = 0
    THEN SubSeq(coefficients, 1, Len(coefficients) - 1)
    ELSE SubSeq(coefficients, 1, Len(coefficients))

\* Polynomial.__init__: self.coeff = trim_trailing_zeros(coefficients).
Polynomial(coefficients) == trim_trailing_zeros(coefficients)

\* Polynomial.degree: -1 for the zero polynomial.
degree(p) == Len(trim_trailing_zeros(p)) - 1

\* Polynomial.typecast of a FieldElement: the one-coefficient polynomial.
typecast(c) == Polynomial(<<c>>)

\* Field.monomial: coefficient * x**degree.
monomial(deg, coefficient) ==
    Polynomial([i \in 1 .. (deg + 1) |-> IF i = deg + 1 THEN coefficient ELSE zero])

\* Field.X: the polynomial x.
X == monomial(1, one)

\* zip_longest(..., fillvalue=zero): the i-th coefficient, zero beyond the end.
Coef(p, i) == IF i <= Len(p) THEN p[i] ELSE zero

PNeg(p) == Polynomial([i \in 1 .. Len(p) |-> FNeg(p[i])])

PAdd(p, q) ==
    Polynomial([i \in 1 .. Max(Len(p), Len(q)) |-> FAdd(Coef(p, i), Coef(q, i))])

PSub(p, q) ==
    Polynomial([i \in 1 .. Max(Len(p), Len(q)) |-> FSub(Coef(p, i), Coef(q, i))])

scalar_mul(p, scalar) == Polynomial([i \in 1 .. Len(p) |-> FMul(p[i], scalar)])

\* The integer accumulated in res[k] by the double loop of Polynomial.__mul__:
\* the sum of p[i] * q[j] over i + j = k (0-based), here for i from `i` up.
RECURSIVE ConvSum(_, _, _, _)
ConvSum(p, q, k, i) ==
    IF i > Len(p) THEN 0
    ELSE (IF k + 1 - i >= 1 /\ k + 1 - i <= Len(q) THEN p[i] * q[k + 1 - i] ELSE 0)
         + ConvSum(p, q, k, i + 1)

\* Polynomial.__mul__: res has degree(p) + degree(q) + 1 entries.
PMul(p, q) ==
    LET n == Max(0, degree(p) + degree(q) + 1)
    IN  Polynomial([k \in 1 .. n |-> FieldElement(ConvSum(p, q, k, 1))])

\* Polynomial.eval: Horner evaluation, from the leading coefficient down.
RECURSIVE eval_loop(_, _, _, _)
eval_loop(p, point, i, val) ==
    IF i = 0 THEN val
    ELSE eval_loop(p, point, i - 1, (val * point + p[i]) % Order)

eval(p, point) == FieldElement(eval_loop(p, point, Len(p), 0))

\* One pass of the while loop of Polynomial.__divmod__: the leading term of
\* rem is eliminated, then rem is cut after its last non-zero coefficient
\* among the entries just rewritten (or at deg_dif - 1 if there is none).
RECURSIVE last_non_zero(_, _, _)
last_non_zero(rem, deg_dif, i) ==
    IF i < deg_dif THEN deg_dif - 1
    ELSE IF rem[i + 1] # zero THEN i
    ELSE last_non_zero(rem, deg_dif, i - 1)

RECURSIVE divmod_loop(_, _, _, _)
divmod_loop(rem, quotient, pol2, g_msc_inv) ==
    LET deg_dif == Len(rem) - Len(pol2)
    IN  IF deg_dif >= 0
        THEN LET tmp == FMul(rem[Len(rem)], g_msc_inv)
                 quotient2 == [quotient EXCEPT ![deg_dif + 1] = FAdd(@, tmp)]
                 rem2 == [i \in 1 .. Len(rem) |->
                            IF i >= deg_dif + 1
                            THEN FSub(rem[i], FMul(tmp, pol2[i - deg_dif]))
                            ELSE rem[i]]
                 rem3 == SubSeq(rem2, 1,
                                last_non_zero(rem2, deg_dif, Len(rem2) - 1) + 1)
             IN  divmod_loop(rem3, quotient2, pol2, g_msc_inv)
        ELSE <<quotient, rem>>

\* [zero] * n: the list of n zeros, empty when n is not positive.
RECURSIVE Zeros(_)
Zeros(n) == IF n <= 0 THEN <<>> ELSE Append(Zeros(n - 1), zero)

\* The result of a failed assertion in divmod or exact division.
DivFail == [ok |-> FALSE, poly |-> FALSE, q |-> <<>>, r |-> <<>>]

\* Polynomial.__divmod__.  ok: no assertion failed; poly: the two results are
\* Polynomial objects (for a zero dividend the code returns the pair of
\* plain lists `[], []`).
divmod(f, g) ==
    LET pol2 == trim_trailing_zeros(g)
        pol1 == trim_trailing_zeros(f)
    IN  IF Len(pol2) = 0 THEN DivFail
        ELSE IF Len(pol1) = 0
        THEN [ok |-> TRUE, poly |-> FALSE, q |-> <<>>, r |-> <<>>]
        ELSE LET deg_dif == Len(pol1) - Len(pol2)
                 quotient == Zeros(deg_dif + 1)
                 g_msc_inv == inverse(pol2[Len(pol2)])
             IN  IF ~g_msc_inv.ok THEN DivFail
                 ELSE LET qr == divmod_loop(pol1, quotient, pol2, g_msc_inv.val)
                      IN  [ok |-> TRUE, poly |-> TRUE,
                           q |-> Polynomial(trim_trailing_zeros(qr[1])),
                           r |-> Polynomial(qr[2])]

\* Polynomial.__truediv__: `assert mod == 0`.  Polynomial.__eq__ compares the
\* coefficient lists; a plain list is never equal to the int 0.
truediv(f, g) ==
    LET dm == divmod(f, g)
    IN  IF dm.ok /\ dm.poly /\ dm.r = typecast(FieldElement(0))
        THEN [ok |-> TRUE, p |-> dm.q]
        ELSE [ok |-> FALSE, p |-> <<>>]

\* The loop of Polynomial.__pow__ (repeated squaring), for other >= 0.
RECURSIVE ppow_loop(_, _, _)
ppow_loop(res, cur, other) ==
    LET res2 == IF other % 2 # 0 THEN PMul(res, cur) ELSE res
    IN  IF other \div 2 = 0 THEN res2
        ELSE ppow_loop(res2, PMul(cur, cur), other \div 2)

\* Polynomial.__pow__
PPow(p, other) == ppow_loop(Polynomial(<<FieldElement(1)>>), p, other)

\* The loop of Polynomial.compose over self.coeff[::-1], down to index i.
RECURSIVE compose_loop(_, _, _)
compose_loop(p, other, i) ==
    IF i > Len(p) THEN Polynomial(<<>>)
    ELSE PAdd(PMul(compose_loop(p, other, i + 1), other), Polynomial(<<p[i]>>))

\* Polynomial.compose
compose(p, other) == compose_loop(p, other, 1)

(***************************************************************************)
(* Lagrange interpolation                                                  *)
(***************************************************************************)

\* prod over a list of polynomials (balanced halves).
RECURSIVE prod_poly(_)
prod_poly(values) ==
    LET len_values == Len(values)
        half == len_values \div 2
    IN  IF len_values = 0 THEN typecast(one)
        ELSE IF len_values = 1 THEN values[1]
        ELSE PMul(prod_poly(SubSeq(values, 1, half)),
                  prod_poly(SubSeq(values, half + 1, len_values)))

\* prod over a list of field elements (balanced halves; 1 for the empty list).
RECURSIVE prod_field(_)
prod_field(values) ==
    LET len_values == Len(values)
        half == len_values \div 2
    IN  IF len_values = 0 THEN 1
        ELSE IF len_values = 1 THEN values[1]
        ELSE FMul(prod_field(SubSeq(values, 1, half)),
                  prod_field(SubSeq(values, half + 1, len_values)))

\* A mutant of differences: each difference is taken the other way round.
RECURSIVE differences_swapped(_, _, _)
differences_swapped(x_values, j, i) ==
    IF i > Len(x_values) THEN <<>>
    ELSE (IF i # j THEN <<FSub(x_values[i], x_values[j])>> ELSE <<>>)
         \o differences_swapped(x_values, j, i + 1)

\* The list x_values without its j-th entry, each subtracted from x_values[j].
RECURSIVE differences(_, _, _)
differences(x_values, j, i) ==
    IF i > Len(x_values) THEN <<>>
    ELSE (IF i # j THEN <<FSub(x_values[j], x_values[i])>> ELSE <<>>)
         \o differences(x_values, j, i + 1)

\* calculate_lagrange_polynomials: ok is FALSE when an assertion fails.
calculate_lagrange_polynomials(x_values) ==
    LET monomials == [i \in 1 .. Len(x_values) |->
                        PSub(monomial(1, one), monomial(0, x_values[i]))]
        numerator == prod_poly(monomials)
        cur == [j \in 1 .. Len(x_values) |->
                  divmod(numerator,
                         scalar_mul(monomials[j],
                                    prod_field(differences(x_values, j, 1))))]
    IN  IF Len(x_values) > 0
           /\ \A j \in 1 .. Len(x_values) : cur[j].ok /\ cur[j].poly
        THEN [ok |-> TRUE, lp |-> [j \in 1 .. Len(x_values) |-> cur[j].q]]
        ELSE [ok |-> FALSE, lp |-> <<>>]

\* The accumulation loop of interpolate_poly_lagrange.
RECURSIVE lagrange_sum(_, _, _)
lagrange_sum(y_values, lagrange_polynomials, j) ==
    IF j = 0 THEN Polynomial(<<>>)
    ELSE PAdd(lagrange_sum(y_values, lagrange_polynomials, j - 1),
              scalar_mul(lagrange_polynomials[j], y_values[j]))

interpolate_poly_lagrange(y_values, lagrange_polynomials) ==
    IF Len(y_values) > 0
    THEN [ok |-> TRUE,
          p |-> lagrange_sum(y_values, lagrange_polynomials, Len(y_values))]
    ELSE [ok |-> FALSE, p |-> <<>>]

(***************************************************************************)
(* class bls12_381_symm: an element is a pair (m1, m2) of points of the    *)
(* two pairing groups, both cyclic of order Order.  A point is modelled by *)
(* its discrete logarithm to its generator (G1 or G2), a pairing value by  *)
(* its discrete logarithm to pairing(G2, G1).                              *)
(***************************************************************************)

\* The generator G = (G1, G2).
G == [m1 |-> 1, m2 |-> 1]

\* bls12_381_symm.__neg__
gneg(x) == [m1 |-> (0 - x.m1) % Order, m2 |-> (0 - x.m2) % Order]

\* bls12_381_symm.__add__
gadd(x, y) == [m1 |-> (x.m1 + y.m1) % Order, m2 |-> (x.m2 + y.m2) % Order]

\* bls12_381_symm.__mul__ / __rmul__ by an int or by the val of a FieldElement
gmul(x, k) == [m1 |-> (x.m1 * k) % Order, m2 |-> (x.m2 * k) % Order]

\* bls12_381_symm.pair: pairing(x.m2, y.m1)
pair(x, y) == (x.m2 * y.m1) % Order

(***************************************************************************)
(* kzg.py                                                                  *)
(***************************************************************************)

\* The loop of Field.vanishing_polynomial: p *= (X - r) for the first i roots.
RECURSIVE vanishing_loop(_, _)
vanishing_loop(roots, i) ==
    IF i = 0 THEN monomial(0, one)
    ELSE PMul(vanishing_loop(roots, i - 1), PSub(X, typecast(roots[i])))

vanishing_polynomial(roots) == vanishing_loop(roots, Len(roots))

\* A mutant of setup: the shifted basis is built from the powers of s * alpha.
setup_shifted_power(n, t, s, alpha) ==
    [pk |-> << [i \in 1 .. n |-> gmul(G, FPow(s, i - 1))],
               [i \in 1 .. n |-> gmul(G, FPow(FMul(s, alpha), i - 1))] >>,
     vk |-> << gmul(G, s), gmul(G, eval(t, s)), gmul(G, alpha) >>,
     s |-> s, alpha |-> alpha, t |-> t]

\* kzg.setup(n, t) with the two random draws s and alpha; the target
\* polynomial t stays known to prover and verifier.  pk[1], pk[2] and
\* vk[1..3] are the code's pk[0], pk[1] and vk[0..2].
setup(n, t, s, alpha) ==
    [pk |-> << [i \in 1 .. n |-> gmul(G, FPow(s, i - 1))],
               [i \in 1 .. n |-> gmul(gmul(G, FPow(s, i - 1)), alpha)] >>,
     vk |-> << gmul(G, s), gmul(G, eval(t, s)), gmul(G, alpha) >>,
     s |-> s, alpha |-> alpha, t |-> t]

\* sum([f.coeff[i] * H[i] ...], G*0) over the first i coefficients.
RECURSIVE commit_sum(_, _, _)
commit_sum(H, f, i) ==
    IF i = 0 THEN gmul(G, 0)
    ELSE gadd(commit_sum(H, f, i - 1), gmul(H[i], f[i]))

\* The result of a failed assertion where a commitment was expected.
ComFail == [ok |-> FALSE, com |-> gmul(G, 0)]

\* A mutant of commit: the basis must be longer than the coefficient list.
commit_strict(H, f) ==
    IF Len(H) > Len(f)
    THEN [ok |-> TRUE, com |-> commit_sum(H, f, Len(f))]
    ELSE ComFail

\* kzg.commit: `assert len(H) >= len(f.coeff)`.
commit(H, f) ==
    IF Len(H) >= Len(f)
    THEN [ok |-> TRUE, com |-> commit_sum(H, f, Len(f))]
    ELSE ComFail

\* kzg.prove_eval: q = (f - v) / (X - u), committed under pk[0].
prove_eval(pk, f, u, v) ==
    LET q == truediv(PSub(f, typecast(v)), PSub(X, typecast(u)))
    IN  IF q.ok THEN commit(pk[1], q.p) ELSE ComFail

\* A mutant of verify_eval: the claimed value v is not subtracted.
verify_eval_no_value(vk, com_f, u, v, com_h) ==
    LET G_s == vk[1]
    IN  pair(G_s, com_h) = pair(gadd(com_f, gmul(com_h, u)), G)

\* kzg.verify_eval
verify_eval(vk, com_f, u, v, com_h) ==
    LET G_s == vk[1]
    IN  pair(G_s, com_h)
          = pair(gadd(gadd(com_f, gneg(gmul(G, v))), gmul(com_h, u)), G)

\* kzg.prove_roots: h = f / t, committed under pk[0].
prove_roots(pk, f, t) ==
    LET h == truediv(f, t)
    IN  IF h.ok THEN commit(pk[1], h.p) ELSE ComFail

\* kzg.verify_roots
verify_roots(vk, com_f, com_h) ==
    LET G_ts == vk[2]
    IN  pair(com_f, G) = pair(com_h, G_ts)

\* kzg.verify_shift
verify_shift(vk, com_f, com_fs) ==
    LET G_alpha == vk[3]
    IN  pair(com_fs, G) = pair(com_f, G_alpha)

\* A mutant of verify: the shift check is left out.
verify_roots_only(vk, pi) == verify_roots(vk, pi[1], pi[2])

\* verify of kzg.unit_test: the roots check and the shift check together.
verify(vk, pi) == verify_roots(vk, pi[1], pi[2]) /\ verify_shift(vk, pi[1], pi[3])

(***************************************************************************)
(* kzg-simple.py                                                           *)
(***************************************************************************)

\* kzg-simple.setup(n) with its random draw alpha.
simple_setup(n, alpha) ==
    [pp |-> [i \in 1 .. n |-> gmul(G, FPow(alpha, i - 1))], alpha |-> alpha]

\* kzg-simple.prove_eval
simple_prove_eval(pp, f, u, v) ==
    LET q == truediv(PSub(f, typecast(v)), PSub(X, typecast(u)))
    IN  IF q.ok THEN commit(pp, q.p) ELSE ComFail

\* A mutant of simple_verify_eval: the claimed value v is not subtracted.
simple_verify_eval_no_value(pp, com_f, u, v, com_q) ==
    LET G_alpha == pp[2]
    IN  pair(G_alpha, com_q) = pair(gadd(com_f, gmul(com_q, u)), G)

\* A mutant of simple_verify_eval: the term u * com_q is left out.
simple_verify_eval_no_point(pp, com_f, u, v, com_q) ==
    LET G_alpha == pp[2]
    IN  pair(G_alpha, com_q) = pair(gadd(com_f, gneg(gmul(G, v))), G)

\* kzg-simple.verify_eval: G_alpha is pp[1], the second parameter.
simple_verify_eval(pp, com_f, u, v, com_q) ==
    LET G_alpha == pp[2]
    IN  pair(G_alpha, com_q)
          = pair(gadd(gadd(com_f, gneg(gmul(G, v))), gmul(com_q, u)), G)

(***************************************************************************)
(* example-single-op.py and example-single-op-optimized.py                 *)
(***************************************************************************)

\* The product of two pairing values (discrete logarithms add).
gt_mul(x, y) == (x + y) % Order

\* The power of a pairing value by an int.
gt_pow(x, k) == (x * k) % Order

\* Whether v[i] is defined for an object v: a tuple is subscriptable, a
\* bls12_381_symm object (which has no __getitem__) is not.
subscriptable(v) == DOMAIN v # {"m1", "m2"}

\* kzg.verify_shift called with any object as vk: `vk[2]` raises TypeError
\* when vk is not subscriptable.
verify_shift_call(vk, com_f, com_fs) ==
    IF subscriptable(vk)
    THEN [error |-> "none", val |-> verify_shift(vk, com_f, com_fs)]
    ELSE [error |-> "TypeError", val |-> FALSE]

\* The attribute lookup kzg.verify_point: kzg.py defines no such function.
verify_point_call == [error |-> "AttributeError", val |-> FALSE]

\* The outcome of a list of `assert` statements run in order: the error of
\* the first one that raises or is false, "none" if all hold.
RECURSIVE first_error(_, _)
first_error(checks, i) ==
    IF i > Len(checks) THEN "none"
    ELSE IF checks[i].error # "none" THEN checks[i].error
    ELSE IF ~checks[i].val THEN "AssertionError"
    ELSE first_error(checks, i + 1)

\* setup(r) of both examples: max_size = 2 and t = X - r.
example_setup(r, s, alpha) == setup(2, PSub(X, typecast(r)), s, alpha)

\* The result of a prover that raised.
ProverFail(stmt) == [ok |-> FALSE, stmt |-> stmt, pi |-> <<>>]

\* prover of example-single-op.py with its random draw wit.
prover(pk, r, a, wit) ==
    LET stmt == FMul(a, wit)
        t == PSub(X, typecast(r))
        a_r == FDiv(a, r)
        wit_r == FDiv(wit, r)
        stmt_r == FDiv(stmt, r)
        p_l == PMul(X, typecast(a_r.val))
        p_r == PMul(X, typecast(wit_r.val))
        p_o == PMul(X, typecast(stmt_r.val))
        h_a == truediv(PSub(p_l, typecast(a)), t)
        h_stmt == truediv(PSub(p_o, typecast(stmt)), t)
        h_op == truediv(PSub(PMul(p_l, p_r), p_o), t)
        pi_l == commit(pk[1], p_l)
        pi_r == commit(pk[1], p_r)
        pi_o == commit(pk[1], p_o)
        pi_l2 == commit(pk[2], p_l)
        pi_r2 == commit(pk[2], p_r)
        pi_o2 == commit(pk[2], p_o)
        pi_a == commit(pk[1], h_a.p)
        pi_stmt == commit(pk[1], h_stmt.p)
        pi_op == commit(pk[1], h_op.p)
    IN  IF /\ a_r.ok /\ wit_r.ok /\ stmt_r.ok
           /\ h_a.ok /\ h_stmt.ok /\ h_op.ok
           /\ pi_l.ok /\ pi_r.ok /\ pi_o.ok /\ pi_l2.ok /\ pi_r2.ok /\ pi_o2.ok
           /\ pi_a.ok /\ pi_stmt.ok /\ pi_op.ok
        THEN [ok |-> TRUE, stmt |-> stmt,
              pi |-> << pi_l.com, pi_r.com, pi_o.com, pi_l2.com, pi_r2.com,
                        pi_o2.com, pi_a.com, pi_stmt.com, pi_op.com >>]
        ELSE ProverFail(stmt)

\* verifier of example-single-op.py: "none" if every assertion holds,
\* otherwise the error raised.  It passes the group element vk[2] to
\* verify_shift and calls kzg.verify_point.
verifier(vk, r, a, stmt, pi) ==
    first_error(<< verify_shift_call(vk[3], pi[1], pi[4]),
                   verify_shift_call(vk[3], pi[2], pi[5]),
                   verify_shift_call(vk[3], pi[3], pi[6]),
                   verify_point_call,
                   verify_point_call,
                   [error |-> "none",
                    val |-> pair(pi[1], pi[2])
                              = gt_mul(pair(vk[2], pi[9]), pair(pi[3], G))] >>, 1)

\* prover of example-single-op-optimized.py with its random draw wit.
optimized_prover(pk, r, a, wit) ==
    LET stmt == FMul(a, wit)
        t == PSub(X, typecast(r))
        a_r == FDiv(a, r)
        wit_r == FDiv(wit, r)
        stmt_r == FDiv(stmt, r)
        p_l == PMul(X, typecast(a_r.val))
        p_r == PMul(X, typecast(wit_r.val))
        p_o == PMul(X, typecast(stmt_r.val))
        h_op == truediv(PSub(PMul(p_l, p_r), p_o), t)
        pi_r == commit(pk[1], p_r)
        pi_r2 == commit(pk[2], p_r)
        pi_op == commit(pk[1], h_op.p)
    IN  IF /\ a_r.ok /\ wit_r.ok /\ stmt_r.ok /\ h_op.ok
           /\ pi_r.ok /\ pi_r2.ok /\ pi_op.ok
        THEN [ok |-> TRUE, stmt |-> stmt,
              pi |-> << pi_r.com, pi_r2.com, pi_op.com >>]
        ELSE ProverFail(stmt)

\* verifier of example-single-op-optimized.py: "none" if every assertion
\* holds, otherwise the error raised.
optimized_verifier(vk, r, a, stmt, pi) ==
    LET G_s == vk[1]
        G_ts == vk[2]
        a_r == FDiv(a, r)
        stmt_r == FDiv(stmt, r)
    IN  first_error(<< verify_shift_call(vk, pi[1], pi[2]),
                       [error |-> IF a_r.ok /\ stmt_r.ok THEN "none"
                                                         ELSE "AssertionError",
                        val |-> gt_pow(pair(G_s, pi[1]), a_r.val)
                                  = gt_mul(pair(pi[3], G_ts),
                                           gt_pow(pair(G_s, G), stmt_r.val))] >>, 1)

(***************************************************************************)
(* The verification functions of kzg.py as Python evaluates them, with the *)
(* type checks of the operators they call.  An object is a record of its   *)
(* type and its value x; an exception is an object of the exception's type *)
(* and propagates through every operation.                                 *)
(***************************************************************************)

\* A FieldElement object.
fe(val) == [type |-> "FieldElement", x |-> <<FieldElement(val)>>]

\* A bls12_381_symm object.
grp(g) == [type |-> "bls12_381_symm", x |-> <<g>>]

\* A pairing value.
gt(e) == [type |-> "FQ12", x |-> <<e>>]

\* An exception of the given type, and the NotImplemented singleton.
Raise(exception) == [type |-> exception, x |-> <<>>]

NotImplemented == [type |-> "NotImplemented", x |-> <<>>]

IsError(o) == o.type \in {"AssertionError", "TypeError", "AttributeError"}

\* FieldElement.__mul__ (and __rmul__): the AssertionError of Field.__call__
\* on an operand that is no FieldElement is caught and NotImplemented returned.
FieldElement_mul(self, other) ==
    IF other.type \in {"int", "FieldElement"}
    THEN fe(FMul(self.x[1], FieldElement(other.x[1])))
    ELSE NotImplemented

\* bls12_381_symm.__mul__: `assert type(x) in (int, FieldElement)`.
symm_mul(self, x) ==
    IF x.type \in {"int", "FieldElement"}
    THEN grp(gmul(self.x[1], x.x[1]))
    ELSE Raise("AssertionError")

\* bls12_381_symm.__rmul__
symm_rmul(self, x) == symm_mul(self, x)

\* bls12_381_symm.__add__: `assert type(other) is bls12_381_symm`.
symm_add(self, other) ==
    IF other.type = "bls12_381_symm"
    THEN grp(gadd(self.x[1], other.x[1]))
    ELSE Raise("AssertionError")

\* The method a.__mul__(b) or b.__rmul__(a) of an object's class; a class
\* without the method gives NotImplemented.
method_mul(self, other) ==
    IF self.type = "FieldElement" THEN FieldElement_mul(self, other)
    ELSE IF self.type = "bls12_381_symm" THEN symm_mul(self, other)
    ELSE NotImplemented

\* A mutant of py_mul: the reflected method of the right operand is not tried.
py_mul_not_reflected(a, b) ==
    IF IsError(a) THEN a
    ELSE IF IsError(b) THEN b
    ELSE IF method_mul(a, b) # NotImplemented THEN method_mul(a, b)
    ELSE Raise("TypeError")

\* The expression a * b: a.__mul__(b), then, if that returns NotImplemented
\* and the types differ, b.__rmul__(a); TypeError if neither applies.
py_mul(a, b) ==
    IF IsError(a) THEN a
    ELSE IF IsError(b) THEN b
    ELSE IF method_mul(a, b) # NotImplemented THEN method_mul(a, b)
    ELSE IF a.type # b.type /\ method_mul(b, a) # NotImplemented
    THEN method_mul(b, a)
    ELSE Raise("TypeError")

\* The expression a + b for a bls12_381_symm object a.
py_add(a, b) ==
    IF IsError(a) THEN a
    ELSE IF IsError(b) THEN b
    ELSE IF a.type = "bls12_381_symm" THEN symm_add(a, b)
    ELSE Raise("TypeError")

\* The expression -a for a bls12_381_symm object a.
py_neg(a) ==
    IF IsError(a) THEN a
    ELSE IF a.type = "bls12_381_symm" THEN grp(gneg(a.x[1]))
    ELSE Raise("TypeError")

\* e(x, y): bls12_381_symm.pair reads x.m2 and y.m1.
pair_call(x, y) ==
    IF IsError(x) THEN x
    ELSE IF IsError(y) THEN y
    ELSE IF x.type = "bls12_381_symm" /\ y.type = "bls12_381_symm"
    THEN gt(pair(x.x[1], y.x[1]))
    ELSE Raise("AttributeError")

\* The value returned by `return lhs == rhs`, or the exception raised.
return_eq(lhs, rhs) ==
    IF IsError(lhs) THEN [error |-> lhs.type, val |-> FALSE]
    ELSE IF IsError(rhs) THEN [error |-> rhs.type, val |-> FALSE]
    ELSE [error |-> "none", val |-> (lhs.x[1] = rhs.x[1])]

\* kzg.verify_eval on objects: vk is the tuple returned by setup.
verify_eval_objects(vk, com_f, u, v, com_h) ==
    LET G_s == grp(vk[1])
    IN  return_eq(pair_call(G_s, com_h),
                  pair_call(py_add(py_add(com_f, py_neg(py_mul(v, grp(G)))),
                                   py_mul(u, com_h)),
                            grp(G)))

\* kzg.verify_roots on objects.
verify_roots_objects(vk, com_f, com_h) ==
    LET G_ts == grp(vk[2])
    IN  return_eq(pair_call(com_f, grp(G)), pair_call(com_h, G_ts))

\* kzg.verify_shift on objects.
verify_shift_objects(vk, com_f, com_fs) ==
    LET G_alpha == grp(vk[3])
    IN  return_eq(pair_call(com_fs, grp(G)), pair_call(com_f, G_alpha))

(***************************************************************************)
(* Inputs                                                                  *)
(***************************************************************************)

\* The lists of at most n field elements.
Lists(n) == {<<>>} \cup UNION {[1 .. k -> FF] : k \in 1 .. n}

\* The polynomials a caller can construct from at most n coefficients.
Polys(n) == {Polynomial(l) : l \in Lists(n)}

\* The lists of pairwise-distinct field elements.
Distinct(l) == \A i, j \in 1 .. Len(l) : i # j => l[i] # l[j]

(***************************************************************************)
(* The library as a state machine: a caller picks an operation of field.py *)
(* and its arguments, the operation runs, and its result is recorded.      *)
(***************************************************************************)
VARIABLES pc, key, call, ret

vars == <<pc, key, call, ret>>

NoKey == [pk |-> <<>>, vk |-> <<>>]

NoCall == [op |-> "none"]

NoRet == [ok |-> FALSE]

Init ==
    /\ pc = "start"
    /\ key = NoKey
    /\ call = NoCall
    /\ ret = NoRet

\* a.inverse()
Inverse ==
    /\ pc = "start"
    /\ \E a \in FF :
          /\ call' = [op |-> "inverse", a |-> a]
          /\ ret' = inverse(a)
    /\ pc' = "done"
    /\ UNCHANGED key

\* divmod(f, g)
Divmod ==
    /\ pc = "start"
    /\ \E f \in Polys(MaxN), g \in Polys(MaxN - 1) :
          /\ call' = [op |-> "divmod", f |-> f, g |-> g]
          /\ ret' = divmod(f, g)
    /\ pc' = "done"
    /\ UNCHANGED key

\* f / g
TrueDiv ==
    /\ pc = "start"
    /\ \E f \in Polys(MaxN), g \in Polys(MaxN - 1) :
          /\ call' = [op |-> "truediv", f |-> f, g |-> g]
          /\ ret' = truediv(f, g)
    /\ pc' = "done"
    /\ UNCHANGED key

\* (h * g) / g
MulDiv ==
    /\ pc = "start"
    /\ \E h \in Polys(MaxN - 1), g \in Polys(MaxN - 1) :
          /\ call' = [op |-> "muldiv", h |-> h, g |-> g]
          /\ ret' = truediv(PMul(h, g), g)
    /\ pc' = "done"
    /\ UNCHANGED key

\* interpolate_poly(x_values, y_values) on pairwise-distinct points, up to
\* its call of calculate_lagrange_polynomials.  The two lists have the same
\* length (the first assertion); y_values is read by the second step only.
InterpolateLagrange ==
    /\ pc = "start"
    /\ \E n \in 1 .. MaxN :
          \E x_values \in {l \in [1 .. n -> FF] : Distinct(l)} :
             LET lp == calculate_lagrange_polynomials(x_values)
             IN  /\ call' = [op |-> "interpolate", x |-> x_values, y |-> <<>>]
                 /\ ret' = lp
                 /\ pc' = IF lp.ok THEN "lagrange" ELSE "done"
    /\ UNCHANGED key

\* interpolate_poly, from its call of interpolate_poly_lagrange to its return.
InterpolateSum ==
    /\ pc = "lagrange"
    /\ \E y_values \in [1 .. Len(call.x) -> FF] :
          /\ call' = [call EXCEPT !.y = y_values]
          /\ ret' = interpolate_poly_lagrange(y_values, ret.lp)
    /\ pc' = "done"
    /\ UNCHANGED key

Next ==
    \/ Inverse
    \/ Divmod
    \/ TrueDiv
    \/ MulDiv
    \/ InterpolateLagrange
    \/ InterpolateSum

Spec == Init /\ [][Next]_vars

(***************************************************************************)
(* kzg.py as a state machine: the trusted setup draws the keys, then the   *)
(* prover commits and proves and the verifier checks, as in unit_test.     *)
(***************************************************************************)

\* setup(size, t) for t = vanishing_polynomial(roots), size - 2 roots at most
Setup ==
    /\ pc = "start"
    /\ \E s \in FF, alpha \in FF, roots \in Lists(MaxN - 2) :
          key' = setup(MaxN, vanishing_polynomial(roots), s, alpha)
    /\ pc' = "ready"
    /\ UNCHANGED <<call, ret>>

\* The prover commits f under both bases; the verifier checks the shift.
\* (In each step the verifier runs only if the prover did not fail.)
Shift ==
    /\ pc = "ready"
    /\ \E f \in Polys(MaxN) :
          LET com_f == commit(key.pk[1], f)
              com_fs == commit(key.pk[2], f)
          IN  /\ call' = [op |-> "shift", f |-> f]
              /\ ret' = [ok |-> com_f.ok /\ com_fs.ok,
                         com_f |-> com_f.com, com_fs |-> com_fs.com,
                         accepted |-> com_f.ok /\ com_fs.ok
                                      /\ verify_shift(key.vk, com_f.com, com_fs.com)]
    /\ pc' = "done"
    /\ UNCHANGED key

\* The prover commits f and proves that f has the roots of t; the verifier
\* checks the proof.
Roots ==
    /\ pc = "ready"
    /\ \E f \in Polys(MaxN) :
          LET com_f == commit(key.pk[1], f)
              com_h == prove_roots(key.pk, f, key.t)
          IN  /\ call' = [op |-> "roots", f |-> f]
              /\ ret' = [ok |-> com_f.ok /\ com_h.ok,
                         com_f |-> com_f.com, com_h |-> com_h.com,
                         accepted |-> com_f.ok /\ com_h.ok
                                      /\ verify_roots(key.vk, com_f.com, com_h.com)]
    /\ pc' = "done"
    /\ UNCHANGED key

\* The triple sent to the verifier: the honest one, or the honest one with
\* one commitment replaced by its negation.
Tampered(pi, which) ==
    << IF which = "com_f" THEN gneg(pi[1]) ELSE pi[1],
       IF which = "com_h" THEN gneg(pi[2]) ELSE pi[2],
       IF which = "com_fs" THEN gneg(pi[3]) ELSE pi[3] >>

\* unit_test for f = (X - c) * t: the prover sends (com_f, com_h, com_fs),
\* one of them possibly negated on the way, and the verifier checks it.
Tamper ==
    /\ pc = "ready"
    /\ \E c \in FF, which \in {"none", "com_f", "com_h", "com_fs"} :
          LET f == PMul(PSub(X, typecast(c)), key.t)
              com_f == commit(key.pk[1], f)
              com_h == prove_roots(key.pk, f, key.t)
              com_fs == commit(key.pk[2], f)
              pi == <<com_f.com, com_h.com, com_fs.com>>
          IN  /\ call' = [op |-> "tamper", c |-> c, which |-> which]
              /\ ret' = [ok |-> com_f.ok /\ com_h.ok /\ com_fs.ok,
                         pi |-> pi,
                         accepted |-> com_f.ok /\ com_h.ok /\ com_fs.ok
                                      /\ verify(key.vk, Tampered(pi, which))]
    /\ pc' = "done"
    /\ UNCHANGED key

NextKZG == Setup \/ Shift \/ Roots \/ Tamper

SpecKZG == Init /\ [][NextKZG]_vars

\* The verifier asks for f(u); the prover commits f and proves f(u) = v;
\* the verifier checks the proof.
Eval ==
    /\ pc = "ready"
    /\ \E f \in Polys(MaxN), u \in FF :
          LET v == eval(f, u)
              com_f == commit(key.pk[1], f)
              pi == prove_eval(key.pk, f, u, v)
          IN  /\ call' = [op |-> "eval", f |-> f, u |-> u, v |-> v]
              /\ ret' = [ok |-> com_f.ok /\ pi.ok,
                         com_f |-> com_f.com, pi |-> pi.com,
                         accepted |-> com_f.ok /\ pi.ok
                                      /\ verify_eval(key.vk, com_f.com, u, v, pi.com)]
    /\ pc' = "done"
    /\ UNCHANGED key

NextEval == Setup \/ Eval

SpecEval == Init /\ [][NextEval]_vars

(***************************************************************************)
(* kzg-simple.py as a state machine, as in its unit_test.                  *)
(***************************************************************************)

\* setup(size)
SimpleSetup ==
    /\ pc = "start"
    /\ \E alpha \in FF : key' = simple_setup(MaxN, alpha)
    /\ pc' = "ready"
    /\ UNCHANGED <<call, ret>>

\* The prover commits f and proves f(u) = v for the value v = f(u).
SimpleProve ==
    /\ pc = "ready"
    /\ \E f \in Polys(MaxN), u \in FF :
          LET v == eval(f, u)
              com_f == commit(key.pp, f)
              pi == simple_prove_eval(key.pp, f, u, v)
          IN  /\ call' = [op |-> "prove_eval", f |-> f, u |-> u, v |-> v]
              /\ ret' = [ok |-> com_f.ok /\ pi.ok,
                         com_f |-> com_f.com, pi |-> pi.com]
              /\ pc' = IF com_f.ok /\ pi.ok THEN "proved" ELSE "done"
    /\ UNCHANGED key

\* The verifier checks the honest commitment and proof against a point u2
\* and a value v2, of which at most one differs from the proved u and v.
SimpleVerify ==
    /\ pc = "proved"
    /\ \E u2 \in FF, v2 \in FF :
          /\ u2 = call.u \/ v2 = call.v
          /\ call' = [op |-> "verify_eval", f |-> call.f, u |-> call.u,
                      v |-> call.v, u2 |-> u2, v2 |-> v2]
          /\ ret' = [ok |-> TRUE, com_f |-> ret.com_f, pi |-> ret.pi,
                     accepted |-> simple_verify_eval(key.pp, ret.com_f, u2, v2, ret.pi)]
    /\ pc' = "done"
    /\ UNCHANGED key

NextSimple == SimpleSetup \/ SimpleProve \/ SimpleVerify

SpecSimple == Init /\ [][NextSimple]_vars

(***************************************************************************)
(* Properties of field.py                                                  *)
(***************************************************************************)

\* C2: for every polynomial f (the zero polynomial included) and every
\* nonzero polynomial g, divmod(f, g) returns a pair of polynomials (q, r)
\* with q*g + r == f and degree(r) < degree(g); divmod by the zero
\* polynomial fails.
C2_DivmodIdentity ==
    call.op = "divmod" =>
        IF call.g = Polynomial(<<>>)
        THEN ~ret.ok
        ELSE /\ ret.ok
             /\ ret.poly
             /\ PAdd(PMul(ret.q, call.g), ret.r) = call.f
             /\ degree(ret.r) < degree(call.g)

\* C3: f / g fails exactly when the remainder of divmod(f, g) is not the zero
\* polynomial and otherwise returns the quotient q with q*g == f; for every
\* polynomial h (the zero polynomial included) and nonzero g, (h*g) / g
\* succeeds and equals h.
C3_ExactDivision ==
    /\ (call.op = "truediv" /\ call.g # Polynomial(<<>>)) =>
          /\ (ret.ok <=> (divmod(call.f, call.g).r = Polynomial(<<>>)))
          /\ (ret.ok => PMul(ret.p, call.g) = call.f)
    /\ (call.op = "muldiv" /\ call.g # Polynomial(<<>>)) =>
          ret.ok /\ ret.p = call.h

\* C4: for every field element a with value in [1, order), a.inverse() * a
\* == 1; inverse() of the zero element fails instead of returning a value.
C4_FieldInverse ==
    call.op = "inverse" =>
        IF call.a = 0
        THEN ~ret.ok
        ELSE ret.ok /\ ret.val \in FF /\ FMul(ret.val, call.a) = one

\* An inverse whose Bezout coefficient was negative has been computed.
C4_Witness ==
    /\ call.op = "inverse"
    /\ call.a # 0
    /\ ret.ok
    /\ inverse_loop(0, 1, Order, call.a)[1] < 0

\* C5: for n >= 1 pairwise-distinct points (the point 0 included) and n
\* values, interpolate_poly returns a polynomial p with p(x_i) == y_i for all
\* i and degree(p) < n.
C5_InterpolationRoundTrip ==
    (call.op = "interpolate" /\ pc = "done") =>
        /\ ret.ok
        /\ \A i \in 1 .. Len(call.x) : eval(ret.p, call.x[i]) = call.y[i]
        /\ degree(ret.p) < Len(call.x)

\* An interpolation through MaxN points, the point 0 among them, has returned
\* a polynomial of the largest degree.
C5_Witness ==
    /\ call.op = "interpolate"
    /\ pc = "done"
    /\ ret.ok
    /\ Len(call.x) = MaxN
    /\ \E i \in 1 .. Len(call.x) : call.x[i] = 0
    /\ degree(ret.p) = MaxN - 1

(***************************************************************************)
(* Properties of kzg.py and kzg-simple.py                                  *)
(***************************************************************************)

\* The identity of the commitment group, G*0.
Identity == gmul(G, 0)

\* C1: for every trapdoor s, every polynomial f with at most n coefficients
\* (constant polynomials and the zero polynomial included) and every point u
\* with v = f(u), prove_eval succeeds and verify_eval accepts its proof
\* against commit(pk[0], f).
C1_EvalCompleteness ==
    call.op = "eval" => ret.ok /\ ret.accepted

C7_ShiftConsistency ==
    call.op = "shift" => ret.ok /\ ret.accepted

\* A polynomial with n coefficients was committed under both bases with
\* neither commitment the identity and a shift alpha other than 0 and 1.
C7_Witness ==
    /\ call.op = "shift"
    /\ Len(call.f) = MaxN
    /\ key.alpha \notin {0, 1}
    /\ ret.com_f # Identity
    /\ ret.com_fs # Identity
    /\ ret.accepted

\* C8: with the honest commitment and the honest proof of f(u) = v,
\* verify_eval returns false for every claimed value v' # v.
C8_WrongValueRejected ==
    (call.op = "verify_eval" /\ call.u2 = call.u /\ call.v2 # call.v) =>
        ~ret.accepted

\* An honest proof for a polynomial with n coefficients was checked against
\* a wrong value and rejected.
C8_Witness ==
    /\ call.op = "verify_eval"
    /\ Len(call.f) = MaxN
    /\ call.u2 = call.u
    /\ call.v2 # call.v
    /\ ~ret.accepted

SetupN ==
    /\ pc = "start"
    /\ \E n \in 0 .. (MaxN - 1), s \in FF, alpha \in FF, roots \in Lists(1) :
          key' = setup(n, vanishing_polynomial(roots), s, alpha)
    /\ pc' = "ready"
    /\ UNCHANGED <<call, ret>>

\* commit(pk[0], f) and commit(pk[1], f) for a polynomial of any size.
Commit ==
    /\ pc = "ready"
    /\ \E f \in Polys(MaxN) :
          LET com_f == commit(key.pk[1], f)
              com_fs == commit(key.pk[2], f)
          IN  /\ call' = [op |-> "commit", f |-> f]
              /\ ret' = [ok |-> com_f.ok, com_f |-> com_f.com,
                         ok_s |-> com_fs.ok, com_fs |-> com_fs.com]
    /\ pc' = "done"
    /\ UNCHANGED key

NextCommit == SetupN \/ Commit

SpecCommit == Init /\ [][NextCommit]_vars

\* C11: commit(H, f) fails exactly when the coefficient count of f exceeds
\* len(H); otherwise, for the keys of setup(n, t), commit(pk[0], f) is
\* G * f(s) and commit(pk[1], f) is G * (alpha * f(s)), the identity for the
\* zero polynomial; so a polynomial of degree n-1 can be committed and one of
\* degree n cannot.
C11_CommitContract ==
    call.op = "commit" =>
        LET n == Len(key.pk[1])
        IN  /\ ret.ok <=> ~(Len(call.f) > n)
            /\ ret.ok_s <=> ~(Len(call.f) > Len(key.pk[2]))
            /\ ret.ok =>
                  /\ ret.com_f = gmul(G, eval(call.f, key.s))
                  /\ ret.com_fs = gmul(G, FMul(key.alpha, eval(call.f, key.s)))
                  /\ (call.f = Polynomial(<<>>) => ret.com_f = Identity)
            /\ (degree(call.f) = n - 1 => ret.ok /\ ret.ok_s)
            /\ (degree(call.f) = n => ~ret.ok /\ ~ret.ok_s)

\* A polynomial of degree n-1 was committed under both bases of the largest
\* key, with a trapdoor other than 0 and 1, to commitments other than the
\* identity.
C11_Witness ==
    /\ call.op = "commit"
    /\ Len(key.pk[1]) = MaxN - 1
    /\ degree(call.f) = MaxN - 2
    /\ key.s \notin {0, 1}
    /\ ret.ok
    /\ ret.com_f # Identity
    /\ ret.com_fs # Identity

(***************************************************************************)
(* The verification functions of kzg.py on commitments multiplied by a     *)
(* scalar delta (com * delta is bls12_381_symm.__mul__).                   *)
(***************************************************************************)

\* The elements of the commitment group: the multiples G * k.
Group == {gmul(G, k) : k \in FF}

\* The field elements other than zero.
NonZero == FF \ {zero}

\* verify_eval on any two commitments, then on both multiplied by delta.
BlindEval ==
    /\ pc = "ready"
    /\ \E com_f \in Group, com_h \in Group, u \in FF, v \in FF, delta \in NonZero :
          /\ call' = [op |-> "blind_eval", com_f |-> com_f, com_h |-> com_h,
                      u |-> u, v |-> v, delta |-> delta]
          /\ ret' = [before |-> verify_eval(key.vk, com_f, u, v, com_h),
                     after |-> verify_eval(key.vk, gmul(com_f, delta), u, v,
                                           gmul(com_h, delta))]
    /\ pc' = "done"
    /\ UNCHANGED key

\* verify_roots on any two commitments, then on both multiplied by delta.
BlindRoots ==
    /\ pc = "ready"
    /\ \E com_f \in Group, com_h \in Group, delta \in NonZero :
          /\ call' = [op |-> "blind_roots", com_f |-> com_f, com_h |-> com_h,
                      delta |-> delta]
          /\ ret' = [before |-> verify_roots(key.vk, com_f, com_h),
                     after |-> verify_roots(key.vk, gmul(com_f, delta),
                                            gmul(com_h, delta))]
    /\ pc' = "done"
    /\ UNCHANGED key

\* verify_shift on any two commitments, then on both multiplied by delta.
BlindShift ==
    /\ pc = "ready"
    /\ \E com_f \in Group, com_fs \in Group, delta \in NonZero :
          /\ call' = [op |-> "blind_shift", com_f |-> com_f, com_fs |-> com_fs,
                      delta |-> delta]
          /\ ret' = [before |-> verify_shift(key.vk, com_f, com_fs),
                     after |-> verify_shift(key.vk, gmul(com_f, delta),
                                            gmul(com_fs, delta))]
    /\ pc' = "done"
    /\ UNCHANGED key

NextBlind == Setup \/ BlindEval \/ BlindRoots \/ BlindShift

SpecBlind == Init /\ [][NextBlind]_vars

\* C12 as stated: for every nonzero delta and all commitments accepted by
\* verify_eval (with any claimed value v), verify_roots or verify_shift, the
\* same function still accepts after every commitment is multiplied by delta.
C12_BlindingPreservesValidity ==
    (call.op \in {"blind_eval", "blind_roots", "blind_shift"} /\ ret.before) =>
        ret.after

\* C12 as amended: for every nonzero delta, commitments accepted by
\* verify_roots or by verify_shift are still accepted after both are
\* multiplied by delta; commitments accepted by verify_eval with the claimed
\* value v are still accepted exactly when v is zero or delta is one.
C12_BlindingPreservesHomogeneous ==
    /\ (call.op \in {"blind_roots", "blind_shift"} /\ ret.before) => ret.after
    /\ (call.op = "blind_eval" /\ ret.before) =>
          (ret.after <=> (call.v = zero \/ call.delta = one))

\* An accepted evaluation proof for a nonzero value, of two commitments other
\* than the identity, was multiplied by a delta other than one and rejected.
C12_Witness ==
    /\ call.op = "blind_eval"
    /\ ret.before
    /\ call.v # zero
    /\ call.delta # one
    /\ call.com_f # Identity
    /\ call.com_h # Identity
    /\ ~ret.after

(***************************************************************************)
(* main of the two examples: setup(r), prover(pk, r, a), and, if the       *)
(* prover returned, verifier(vk, r, a, stmt, pi).                          *)
(***************************************************************************)

\* setup(r) for a nonzero public point r.
ExampleSetup ==
    /\ pc = "start"
    /\ \E r \in NonZero, s \in FF, alpha \in FF :
          LET k == example_setup(r, s, alpha)
          IN  key' = [pk |-> k.pk, vk |-> k.vk, s |-> s, alpha |-> alpha,
                      t |-> k.t, r |-> r]
    /\ pc' = "ready"
    /\ UNCHANGED <<call, ret>>

\* prover(pk, r, a) of example-single-op.py
Prover ==
    /\ pc = "ready"
    /\ \E a \in FF, wit \in FF :
          LET res == prover(key.pk, key.r, a, wit)
          IN  /\ call' = [op |-> "prover", a |-> a, wit |-> wit]
              /\ ret' = [ok |-> res.ok, stmt |-> res.stmt, pi |-> res.pi,
                         error |-> IF res.ok THEN "none" ELSE "AssertionError"]
              /\ pc' = IF res.ok THEN "proved" ELSE "done"
    /\ UNCHANGED key

\* verifier(vk, r, a, stmt, pi) of example-single-op.py
Verifier ==
    /\ pc = "proved"
    /\ call' = [call EXCEPT !.op = "verifier"]
    /\ ret' = [ret EXCEPT
                 !.error = verifier(key.vk, key.r, call.a, ret.stmt, ret.pi),
                 !.ok = (verifier(key.vk, key.r, call.a, ret.stmt, ret.pi)
                           = "none")]
    /\ pc' = "done"
    /\ UNCHANGED key

\* prover(pk, r, a) of example-single-op-optimized.py
OptimizedProver ==
    /\ pc = "ready"
    /\ \E a \in FF, wit \in FF :
          LET res == optimized_prover(key.pk, key.r, a, wit)
          IN  /\ call' = [op |-> "optimized_prover", a |-> a, wit |-> wit]
              /\ ret' = [ok |-> res.ok, stmt |-> res.stmt, pi |-> res.pi,
                         error |-> IF res.ok THEN "none" ELSE "AssertionError"]
              /\ pc' = IF res.ok THEN "optimized_proved" ELSE "done"
    /\ UNCHANGED key

\* verifier(vk, r, a, stmt, pi) of example-single-op-optimized.py
OptimizedVerifier ==
    /\ pc = "optimized_proved"
    /\ call' = [call EXCEPT !.op = "optimized_verifier"]
    /\ ret' = [ret EXCEPT
                 !.error = optimized_verifier(key.vk, key.r, call.a, ret.stmt,
                                              ret.pi),
                 !.ok = (optimized_verifier(key.vk, key.r, call.a, ret.stmt,
                                            ret.pi) = "none")]
    /\ pc' = "done"
    /\ UNCHANGED key

NextExample ==
    \/ ExampleSetup
    \/ Prover
    \/ Verifier
    \/ OptimizedProver
    \/ OptimizedVerifier

SpecExample == Init /\ [][NextExample]_vars

\* C13: for every nonzero public point r, every input a and every witness
\* wit (zero values included), in both examples the prover produces a proof
\* and the verifier accepts it, with no assertion or other failure.
C13_ProtocolCompleteness ==
    call.op \in {"prover", "verifier", "optimized_prover", "optimized_verifier"} =>
        ret.ok /\ ret.error = "none"

(***************************************************************************)
(* The verifier of kzg.py on untrusted arguments: any group elements as    *)
(* commitments and proofs, any field elements as point and value.          *)
(***************************************************************************)

\* verify_eval(vk, com_f, u, v, com_h)
VerifyEval ==
    /\ pc = "ready"
    /\ \E com_f \in Group, com_h \in Group, u \in FF, v \in FF :
          /\ call' = [op |-> "any_eval", com_f |-> com_f, com_h |-> com_h,
                      u |-> u, v |-> v]
          /\ ret' = verify_eval_objects(key.vk, grp(com_f), fe(u), fe(v),
                                        grp(com_h))
    /\ pc' = "done"
    /\ UNCHANGED key

\* verify_roots(vk, com_f, com_h)
VerifyRoots ==
    /\ pc = "ready"
    /\ \E com_f \in Group, com_h \in Group :
          /\ call' = [op |-> "any_roots", com_f |-> com_f, com_h |-> com_h]
          /\ ret' = verify_roots_objects(key.vk, grp(com_f), grp(com_h))
    /\ pc' = "done"
    /\ UNCHANGED key

\* verify_shift(vk, com_f, com_fs)
VerifyShift ==
    /\ pc = "ready"
    /\ \E com_f \in Group, com_fs \in Group :
          /\ call' = [op |-> "any_shift", com_f |-> com_f, com_fs |-> com_fs]
          /\ ret' = verify_shift_objects(key.vk, grp(com_f), grp(com_fs))
    /\ pc' = "done"
    /\ UNCHANGED key

NextVerify == Setup \/ VerifyEval \/ VerifyRoots \/ VerifyShift

SpecVerify == Init /\ [][NextVerify]_vars

\* The discrete logarithm of a commitment G * k.
Log(com) == com.m1

\* C14: for every key of setup and all group elements and field elements as
\* arguments, verify_eval, verify_roots and verify_shift raise nothing and
\* return a boolean, which is false exactly when the pairing equation is
\* false: (s - u) * h == f - v, f == h * t(s) and fs == f * alpha for the
\* logarithms f, h, fs of the commitments.
C14_VerifyNeverRaises ==
    /\ call.op \in {"any_eval", "any_roots", "any_shift"} =>
          ret.error = "none" /\ ret.val \in BOOLEAN
    /\ call.op = "any_eval" =>
          (ret.val <=>
              FMul(FSub(key.s, call.u), Log(call.com_h))
                = FSub(Log(call.com_f), call.v))
    /\ call.op = "any_roots" =>
          (ret.val <=>
              Log(call.com_f) = FMul(Log(call.com_h), eval(key.t, key.s)))
    /\ call.op = "any_shift" =>
          (ret.val <=> Log(call.com_fs) = FMul(Log(call.com_f), key.alpha))

\* verify_eval has returned false for two commitments other than the
\* identity and a nonzero point and value that do not satisfy the equation.
C14_Witness ==
    /\ call.op = "any_eval"
    /\ call.com_f # Identity
    /\ call.com_h # Identity
    /\ call.u # zero
    /\ call.v # zero
    /\ ret.error = "none"
    /\ ret.val = FALSE

(***************************************************************************)
(* A program that builds polynomials: it constructs one and then applies   *)
(* Polynomial operations to the last result, in any order.  Results with   *)
(* more than MaxN coefficients are not followed.                           *)
(***************************************************************************)

\* The second operand of an operation on p: a constant, a linear polynomial,
\* p itself or -p.
Operands(p) == Polys(2) \cup {p, PNeg(p)}

\* The operation `op` has returned the Polynomial p.
Returned(op, p) ==
    /\ Len(p) <= MaxN
    /\ call' = [op |-> op]
    /\ ret' = [p |-> p]
    /\ pc' = "poly"
    /\ UNCHANGED key

\* Polynomial(field, coefficients) for any list of field elements
Construct ==
    /\ pc = "start"
    /\ \E l \in Lists(MaxN) : Returned("Polynomial", Polynomial(l))

\* field.monomial(degree, coefficient), the coefficient zero included
Monomial ==
    /\ pc \in {"start", "poly"}
    /\ \E deg \in 0 .. (MaxN - 1), c \in FF : Returned("monomial", monomial(deg, c))

\* p + q
Add ==
    /\ pc = "poly"
    /\ \E q \in Operands(ret.p) : Returned("add", PAdd(ret.p, q))

\* p - q
Sub ==
    /\ pc = "poly"
    /\ \E q \in Operands(ret.p) : Returned("sub", PSub(ret.p, q))

\* -p
Neg ==
    /\ pc = "poly"
    /\ Returned("neg", PNeg(ret.p))

\* p.scalar_mul(scalar), the scalar zero included
ScalarMul ==
    /\ pc = "poly"
    /\ \E scalar \in FF : Returned("scalar_mul", scalar_mul(ret.p, scalar))

\* p * q
Mul ==
    /\ pc = "poly"
    /\ \E q \in Operands(ret.p) : Returned("mul", PMul(ret.p, q))

\* p ** n
Pow ==
    /\ pc = "poly"
    /\ \E n \in 0 .. MaxN : Returned("pow", PPow(ret.p, n))

\* divmod(p, q), continued with the quotient or with the remainder when the
\* call returns Polynomials.
DivmodPoly ==
    /\ pc = "poly"
    /\ \E q \in Operands(ret.p) :
          LET dm == divmod(ret.p, q)
          IN  /\ dm.ok
              /\ dm.poly
              /\ \/ Returned("quotient", dm.q)
                 \/ Returned("remainder", dm.r)

\* p.compose(q)
Compose ==
    /\ pc = "poly"
    /\ \E q \in Operands(ret.p) : Returned("compose", compose(ret.p, q))

NextPoly ==
    \/ Construct
    \/ Monomial
    \/ Add
    \/ Sub
    \/ Neg
    \/ ScalarMul
    \/ Mul
    \/ Pow
    \/ DivmodPoly
    \/ Compose

SpecPoly == Init /\ [][NextPoly]_vars

\* C15: after any sequence of Polynomial operations, the resulting
\* Polynomial has a coefficient list with no trailing zero, the zero
\* polynomial is the empty list, and degree() is len(coeff) - 1.
C15_CanonicalForm ==
    pc = "poly" =>
        /\ Len(ret.p) > 0 => ret.p[Len(ret.p)] # zero
        /\ (\A i \in 1 .. Len(ret.p) : ret.p[i] = zero) => ret.p = <<>>
        /\ degree(ret.p) = Len(ret.p) - 1
        /\ \A i \in 1 .. Len(ret.p) : ret.p[i] \in FF

\* A division with remainder has returned the zero polynomial as the
\* remainder of a nonzero dividend.
C15_Witness ==
    /\ pc = "poly"
    /\ call.op = "remainder"
    /\ ret.p = <<>>
    /\ degree(ret.p) = -1

(***************************************************************************)
(* Coefficient lists as objects.  The heap is the sequence of the list     *)
(* objects created so far; a list object is named by its index in the heap *)
(* and a Polynomial by the index of its coeff.                             *)
(***************************************************************************)

\* trim_trailing_zeros on the list object id: an empty list is returned
\* itself (`return l`), any other list is sliced into a new list object.
trim_ref(h, id) ==
    IF Len(h[id]) = 0
    THEN [heap |-> h, id |-> id]
    ELSE [heap |-> Append(h, trim_trailing_zeros(h[id])), id |-> Len(h) + 1]

\* Polynomial(field, coefficients) on the list object id, with the
\* coefficient sequence the new Polynomial has at its construction.
Polynomial_ref(h, id) ==
    LET t == trim_ref(h, id)
    IN  [heap |-> t.heap, poly |-> [coeff |-> t.id, made |-> t.heap[t.id]]]

\* The while loop of Polynomial.__divmod__ on the list object rem: the
\* assignments `rem[i] = ...` write into that object, the slice
\* `rem = rem[:last_non_zero + 1]` creates a new one.
RECURSIVE divmod_heap_loop(_, _, _, _)
divmod_heap_loop(h, rem, pol2, g_msc_inv) ==
    LET deg_dif == Len(h[rem]) - Len(pol2)
    IN  IF deg_dif >= 0
        THEN LET tmp == FMul(h[rem][Len(h[rem])], g_msc_inv)
                 rem2 == [i \in 1 .. Len(h[rem]) |->
                            IF i >= deg_dif + 1
                            THEN FSub(h[rem][i], FMul(tmp, pol2[i - deg_dif]))
                            ELSE h[rem][i]]
                 written == [h EXCEPT ![rem] = SubSeq(rem2, 1, Len(rem2))]
                 sliced == Append(written,
                                  SubSeq(rem2, 1,
                                         last_non_zero(rem2, deg_dif,
                                                       Len(rem2) - 1) + 1))
             IN  divmod_heap_loop(sliced, Len(sliced), pol2, g_msc_inv)
        ELSE h

\* The heap after divmod(self, other) for two Polynomials given by their
\* coeff objects.
divmod_heap(h, self, other) ==
    LET t2 == trim_ref(h, other)
        pol2 == t2.heap[t2.id]
        t1 == trim_ref(t2.heap, self)
        g_msc_inv == inverse(pol2[Len(pol2)])
    IN  IF Len(pol2) = 0 THEN t2.heap
        ELSE IF Len(t1.heap[t1.id]) = 0 THEN t1.heap
        ELSE IF ~g_msc_inv.ok THEN t1.heap
        ELSE divmod_heap_loop(t1.heap, t1.id, pol2, g_msc_inv.val)

\* The caller builds a list l and constructs p = Polynomial(field, l).
ConstructFromList ==
    /\ pc = "start"
    /\ \E l \in Lists(MaxN) :
          LET p == Polynomial_ref(<<l>>, 1)
          IN  ret' = [heap |-> p.heap, l |-> 1, polys |-> <<p.poly>>]
    /\ call' = [op |-> "Polynomial"]
    /\ pc' = "built"
    /\ UNCHANGED key

\* The caller appends to its list: l.append(x)
ListAppend ==
    /\ pc = "built"
    /\ \E x \in FF :
          /\ call' = [op |-> "append", i |-> Len(ret.heap[ret.l]) + 1, x |-> x]
          /\ ret' = [ret EXCEPT !.heap[ret.l] = Append(@, x)]
    /\ pc' = "mutated"
    /\ UNCHANGED key

\* The caller overwrites an entry of its list: l[i] = x
ListSetItem ==
    /\ pc = "built"
    /\ \E i \in 1 .. Len(ret.heap[ret.l]), x \in FF :
          /\ call' = [op |-> "setitem", i |-> i, x |-> x]
          /\ ret' = [ret EXCEPT !.heap[ret.l][i] = x]
    /\ pc' = "mutated"
    /\ UNCHANGED key

\* divmod(p, g) for a second Polynomial g built from a list of its own.
DivmodInPlace ==
    /\ pc = "built"
    /\ \E l \in Lists(MaxN - 1) :
          LET h == Append(ret.heap, l)
              g == Polynomial_ref(h, Len(h))
          IN  ret' = [heap |-> divmod_heap(g.heap, ret.polys[1].coeff,
                                           g.poly.coeff),
                      l |-> ret.l,
                      polys |-> Append(ret.polys, g.poly)]
    /\ call' = [op |-> "divmod"]
    /\ pc' = "divided"
    /\ UNCHANGED key

NextHeap == ConstructFromList \/ ListAppend \/ ListSetItem \/ DivmodInPlace

SpecHeap == Init /\ [][NextHeap]_vars

\* C16: the coefficient sequence of a Polynomial never changes after its
\* construction: neither by a later mutation of the list the caller passed
\* to the constructor (any list, the empty list included), nor by divmod on
\* either of its operands.
C16_PolynomialImmutable ==
    pc \in {"built", "mutated", "divided"} =>
        \A k \in 1 .. Len(ret.polys) :
            ret.heap[ret.polys[k].coeff] = ret.polys[k].made

====
